---- MODULE Spec2Model ----
(***************************************************************************)
(* A model of with-remote-state-caching: the registration context made by  *)
(* createRemoteStateCachingContext, the query and mutation wrappers and    *)
(* the trigger dispatch (onMutationOutput) that runs after a mutation.     *)
(*                                                                         *)
(* Strings that the code inspects character by character (names, cache     *)
(* keys) are sequences of one-character strings, so that join('.') and     *)
(* startsWith are computed as the code computes them.                      *)
(***************************************************************************)
EXTENDS Integers, Sequences, FiniteSets, TLC

VARIABLES
  queries,    \* context.registered.queries: name -> registration
  cache,      \* the cache store shared by the context: key -> cached value
  ctxKeySer,  \* defaultOptions.serialize?.key of the context ("none" = not given)
  valueSerde, \* the serialize.value/deserialize.value options the queries are given
  caches,     \* the cache instances call inputs carry, for a context whose
              \* cache is resolved from the input: instance -> (key -> value)
  queriesOfPeer, \* context.registered.queries of a second context that is
              \* given the same cache store
  tasks,      \* the executions in flight, for the runs that follow each await:
              \* task -> where it stands and what it holds
  remote,     \* the version of the remote state the queries read and the
              \* mutations write
  last        \* what the most recent call did and returned (observation only)

vars == <<queries, cache, ctxKeySer, valueSerde, caches, queriesOfPeer, tasks, remote, last>>

----------------------------------------------------------------------------
(* Bounds of the model *)

MaxTriggers == 1        \* trigger definitions added in one context
MaxTriggersOfQuery == 2 \* trigger definitions added to the one query of SpecFirst
MaxMutations == 2       \* executions of mutations whose logic is called

----------------------------------------------------------------------------
(* Value universes *)

Undefined == 0 - 1                \* JavaScript undefined, for values
NoName == <<>>                    \* undefined or '' (both falsy), for names
QueryNames == {<<"a">>, <<"a", "b">>}
MutationNames == {<<"m">>, <<"n">>}
Inputs == {<<"x">>, <<"b", "x">>} \* an input: the values of its fields
BadInput == <<>>                  \* a mutation input without the fields a trigger reads
Outputs == {0, 1}                 \* query and mutation outputs; 0 is falsy
TextBase == Cardinality(Outputs)  \* shifts an output past every plain output
LogicErrors == {"e1", "e2"}       \* errors the raw mutation logic rejects with
AffectsKinds == {"keys", "inputs"}
CacheInstances == {"c1", "c2"}    \* the cache instances a call's input may carry
MutationTasks == {"t1", "t2"}     \* the executions of mutations that may overlap
QueryTask == "q"                  \* the execution of a query that may overlap them
TaskIds == MutationTasks \cup {QueryTask}
RemoteStart == 2                  \* the version of the remote state at the start

\* a task that is not running
Idle ==
  [pc |-> "idle", logic |-> "none", mutation |-> NoName, name |-> NoName,
   input |-> <<>>, observed |-> Undefined, stage |-> <<>>, pending |-> <<>>,
   later |-> <<>>, held |-> <<>>, invalidated |-> {}, read |-> {}]

----------------------------------------------------------------------------
(* Strings *)

\* String.prototype.startsWith
StartsWith(s, prefix) ==
  /\ Len(prefix) <= Len(s)
  /\ SubSeq(s, 1, Len(prefix)) = prefix

\* Array.prototype.join('.') of an array of one-character strings
RECURSIVE JoinDot(_)
JoinDot(parts) ==
  IF Len(parts) = 0 THEN <<>>
  ELSE IF Len(parts) = 1 THEN <<parts[1]>>
  ELSE <<parts[1], ".">> \o JoinDot(Tail(parts))

----------------------------------------------------------------------------
(* Naming *)

\* the result of a call that may throw: err = "" when it returned
Returned(v) == [err |-> "", value |-> v]
Thrown(e) == [err |-> e, value |-> NoName]

\* a name extraction that silently prefers the function's name when the two
\* names differ
extractNamePreferringFunctionReference(nameFromFunctionReference, nameFromExplicitOptions) ==
  LET name == IF nameFromFunctionReference # NoName
              THEN nameFromFunctionReference
              ELSE nameFromExplicitOptions
  IN IF name = NoName THEN Thrown("BadRequestError") ELSE Returned(name)

\* a name extraction that accepts an operation without any name
extractNameAcceptingUnnamed(nameFromFunctionReference, nameFromExplicitOptions) ==
  IF /\ nameFromExplicitOptions # NoName
     /\ nameFromFunctionReference # NoName
     /\ nameFromExplicitOptions # nameFromFunctionReference
  THEN Thrown("BadRequestError")
  ELSE Returned(IF nameFromFunctionReference # NoName
                THEN nameFromFunctionReference
                ELSE nameFromExplicitOptions)

\* a name extraction that does not fall back to the name of the options
extractNameFromFunctionReferenceOnly(nameFromFunctionReference, nameFromExplicitOptions) ==
  IF /\ nameFromExplicitOptions # NoName
     /\ nameFromFunctionReference # NoName
     /\ nameFromExplicitOptions # nameFromFunctionReference
  THEN Thrown("BadRequestError")
  ELSE IF nameFromFunctionReference = NoName
       THEN Thrown("BadRequestError")
       ELSE Returned(nameFromFunctionReference)

extractNameFromRegistrationInputs(nameFromFunctionReference, nameFromExplicitOptions) ==
  IF /\ nameFromExplicitOptions # NoName
     /\ nameFromFunctionReference # NoName
     /\ nameFromExplicitOptions # nameFromFunctionReference
  THEN Thrown("BadRequestError")
  ELSE LET name == IF nameFromFunctionReference # NoName
                   THEN nameFromFunctionReference
                   ELSE nameFromExplicitOptions
       IN IF name = NoName THEN Thrown("BadRequestError") ELSE Returned(name)

----------------------------------------------------------------------------
(* Key serialization *)

\* the library default: a legible preview of the input and a hash of it,
\* joined by '.'
defaultKeySerializationMethod(input) ==
  <<input[1], ".", IF Len(input) = 1 THEN "h" ELSE "g">>

\* a key serialization method given by the caller: the input's field values
\* joined by '.'
customKeySerializationMethod(input) == JoinDot(input)

\* the key serialization method a context is given as its default:
\* ['for', ...Object.values(forInput[0])].join('.')
contextKeySerializationMethod(input) == JoinDot(<<"for">> \o input)

\* a precedence that lets the context's method override the query's own
keySerializationMethodPreferringContext(queryKeySer, contextKeySer) ==
  IF contextKeySer # "none" THEN contextKeySer
  ELSE IF queryKeySer # "none" THEN queryKeySer
  ELSE "default"

\* options.serialize?.key ?? defaultOptions.serialize?.key ?? the default
keySerializationMethodFromOptions(queryKeySer, contextKeySer) ==
  IF queryKeySer # "none" THEN queryKeySer
  ELSE IF contextKeySer # "none" THEN contextKeySer
  ELSE "default"

SerializeKey(method, input) ==
  IF method = "default" THEN defaultKeySerializationMethod(input)
  ELSE IF method = "context" THEN contextKeySerializationMethod(input)
  ELSE customKeySerializationMethod(input)

\* a key serialization that leaves the query's name out
keySerializationMethodWithoutNamespace(name, method, input) ==
  SerializeKey(method, input)

\* [name, keySerializationMethodFromOptions(...args)].join('.')
keySerializationMethodWithNamespace(name, method, input) ==
  name \o <<".">> \o SerializeKey(method, input)

----------------------------------------------------------------------------
(* Value serialization: the library's no-op default, or a text encoding    *)
(* given through options.serialize.value and options.deserialize.value.    *)
(* An encoded text is never empty, so it is always truthy; it is modelled  *)
(* as the output shifted past every plain output.                          *)

SerializeValue(serde, output) ==
  IF output = Undefined THEN Undefined
  ELSE IF serde = "text" THEN output + TextBase
  ELSE output

DeserializeValue(serde, cached) ==
  IF serde = "text" THEN cached - TextBase ELSE cached

\* JavaScript truthiness of a cached value
Truthy(v) == v # Undefined /\ v # 0

----------------------------------------------------------------------------
(* The cache store: get, set (set to undefined invalidates), keys *)

CacheGet(c, key) == IF key \in DOMAIN c THEN c[key] ELSE Undefined

CacheSet(c, key, value) ==
  IF value = Undefined
  THEN [k \in DOMAIN c \ {key} |-> c[k]]
  ELSE [k \in DOMAIN c \cup {key} |-> IF k = key THEN value ELSE c[k]]

CacheKeys(c) == DOMAIN c

----------------------------------------------------------------------------
(* The extendable-caching wrapper around a query: execute, invalidate,     *)
(* update                                                                  *)

\* cache-aside read: the logic's output is used only on a miss
WrapperExecute(c, key, serde, logicOutput) ==
  LET cached == CacheGet(c, key)
  IN IF cached # Undefined
     THEN [hit |-> TRUE, result |-> DeserializeValue(serde, cached), cache |-> c]
     ELSE [hit |-> FALSE, result |-> logicOutput,
           cache |-> CacheSet(c, key, SerializeValue(serde, logicOutput))]

WrapperInvalidate(c, key) == CacheSet(c, key, Undefined)

\* update: the value toValue made from what the cache holds is set
WrapperUpdate(c, key, serde, value) ==
  CacheSet(c, key, SerializeValue(serde, value))

----------------------------------------------------------------------------
(* The registration context *)

InvalidationTriggers == [mutation : MutationNames, affects : AffectsKinds]
UpdateTriggers == [mutation : MutationNames, affects : AffectsKinds]

\* the number of trigger definitions held by the context
RECURSIVE TriggerCount(_, _)
TriggerCount(regs, names) ==
  IF names = {} THEN 0
  ELSE LET n == CHOOSE x \in names : TRUE
       IN Len(regs[n].invalidatedBy) + Len(regs[n].updatedBy)
          + TriggerCount(regs, names \ {n})

\* a registration that stores the registration before it checks the name
registerQueryBeforeChecking(regs, registration) ==
  [err |-> IF registration.name \in DOMAIN regs THEN "BadRequestError" ELSE "",
   queries |-> [n \in DOMAIN regs \cup {registration.name} |->
                  IF n = registration.name THEN registration ELSE regs[n]]]

\* a registration that overwrites what the name holds instead of throwing
registerQueryOverwriting(regs, registration) ==
  [err |-> "",
   queries |-> [n \in DOMAIN regs \cup {registration.name} |->
                  IF n = registration.name THEN registration ELSE regs[n]]]

\* registerQueryToRemoteStateContext: throws when the name is taken
registerQueryToRemoteStateContext(regs, registration) ==
  IF registration.name \in DOMAIN regs
  THEN [err |-> "BadRequestError", queries |-> regs]
  ELSE [err |-> "",
        queries |-> [n \in DOMAIN regs \cup {registration.name} |->
                       IF n = registration.name THEN registration ELSE regs[n]]]

\* the registration withRemoteStateQueryCaching builds for a query
NewRegistration(name, queryKeySer, contextKeySer) ==
  [name |-> name,
   keySer |-> keySerializationMethodFromOptions(queryKeySer, contextKeySer),
   invalidatedBy |-> <<>>,
   updatedBy |-> <<>>]

\* the cache key the wrapped query of a registration uses for an input
QueryKey(registration, input) ==
  keySerializationMethodWithNamespace(registration.name, registration.keySer, input)

Init ==
  /\ queries = [n \in {} |-> n]
  /\ cache = [k \in {} |-> k]
  /\ ctxKeySer = "none"
  /\ valueSerde \in {"noOp", "text"}
  /\ caches = [instance \in CacheInstances |-> [k \in {} |-> k]]
  /\ queriesOfPeer = [n \in {} |-> n]
  /\ tasks = [t \in TaskIds |-> Idle]
  /\ remote = RemoteStart
  /\ last = [op |-> "createRemoteStateCachingContext"]

\* withRemoteStateQueryCaching(logic, options); optionsKeySer is
\* options.serialize?.key ("none" = not given)
withRemoteStateQueryCaching(logicName, optionsName, optionsKeySer) ==
  LET named == extractNameFromRegistrationInputs(logicName, optionsName)
      registered == registerQueryToRemoteStateContext(
                      queries, NewRegistration(named.value, optionsKeySer, ctxKeySer))
  IN /\ queries' = IF named.err # "" THEN queries ELSE registered.queries
     /\ last' = [op |-> "withRemoteStateQueryCaching",
                 logicName |-> logicName, optionsName |-> optionsName,
                 keySer |-> optionsKeySer,
                 err |-> IF named.err # "" THEN named.err ELSE registered.err,
                 name |-> named.value]
     /\ UNCHANGED <<cache, ctxKeySer, valueSerde, caches, queriesOfPeer, tasks, remote>>

\* an addTrigger that puts the definition in front of the list
addTriggerInFront(name, invalidatedBy, updatedBy) ==
  /\ name \in DOMAIN queries
  /\ queries' = [queries EXCEPT
       ![name].invalidatedBy = invalidatedBy \o @,
       ![name].updatedBy = updatedBy \o @]
  /\ last' = [op |-> "addTrigger", name |-> name, err |-> "",
              arms |-> Len(invalidatedBy) + Len(updatedBy)]
  /\ UNCHANGED <<cache, ctxKeySer, valueSerde, caches, queriesOfPeer, tasks, remote>>

\* addTrigger({ invalidatedBy, updatedBy }) of the query registered as name;
\* each arm is <<>> when not given and <<definition>> when given
addTrigger(name, invalidatedBy, updatedBy) ==
  /\ name \in DOMAIN queries
  /\ queries' = [queries EXCEPT
       ![name].invalidatedBy = @ \o invalidatedBy,
       ![name].updatedBy = @ \o updatedBy]
  /\ last' = [op |-> "addTrigger", name |-> name, err |-> "",
              arms |-> Len(invalidatedBy) + Len(updatedBy)]
  /\ UNCHANGED <<cache, ctxKeySer, valueSerde, caches, queriesOfPeer, tasks, remote>>

----------------------------------------------------------------------------
(* Trigger dispatch: onMutationOutput *)

\* definitions.find((definition) => definition.mutation.name === mutationName):
\* the index of the first match, 0 when there is none
FindByMutation(definitions, mutationName) ==
  LET hits == {i \in 1..Len(definitions) : definitions[i].mutation = mutationName}
  IN IF hits = {} THEN 0 ELSE CHOOSE i \in hits : \A j \in hits : i <= j

\* a listing that keeps only the keys equal to the query's name
CachedQueryKeysNamedExactly(c, registration) ==
  {key \in CacheKeys(c) : key = registration.name}

\* (await mutationCache.keys()).filter((key) => key.startsWith(registration.name))
CachedQueryKeys(c, registration) ==
  {key \in CacheKeys(c) : StartsWith(key, registration.name)}

\* the affects functions the triggers are given: "keys" names every cached
\* query key, "inputs" names the query input equal to the mutation's input
\* and throws when the mutation's input lacks the fields it reads
\* "both" names the cached query keys of the inputs with two fields (their
\* keys end with that hash) and the query input equal to the mutation's input
AffectsThrows(kind, mutationInput) ==
  kind \in {"inputs", "both"} /\ mutationInput = BadInput

Affects(kind, mutationInput, cachedQueryKeys) ==
  IF kind = "keys" THEN [keys |-> cachedQueryKeys, inputs |-> {}]
  ELSE IF kind = "both"
  THEN [keys |-> {key \in cachedQueryKeys : key[Len(key)] = "g"},
        inputs |-> {mutationInput}]
  ELSE [keys |-> {}, inputs |-> {mutationInput}]

\* whether the pass of one query over `definitions` throws
PassThrows(definitions, mutationName, mutationInput) ==
  LET i == FindByMutation(definitions, mutationName)
  IN i # 0 /\ AffectsThrows(definitions[i].affects, mutationInput)

\* a dispatch that acts on affects.inputs only when affects.keys names nothing
AffectedKeysExclusive(c, registration, definition, mutationInput) ==
  IF AffectsThrows(definition.affects, mutationInput) THEN {}
  ELSE LET named == Affects(definition.affects, mutationInput,
                            CachedQueryKeys(c, registration))
       IN IF named.keys # {} THEN named.keys
          ELSE {QueryKey(registration, input) : input \in named.inputs}

\* the keys one definition's affects names for a query: those of affects.keys
\* and those computed from affects.inputs by the query's key serialization
AffectedKeys(c, registration, definition, mutationInput) ==
  IF AffectsThrows(definition.affects, mutationInput) THEN {}
  ELSE LET named == Affects(definition.affects, mutationInput,
                            CachedQueryKeys(c, registration))
       IN named.keys \cup {QueryKey(registration, input) : input \in named.inputs}

\* the keys the pass of one query acts on: those its first definition for the
\* mutation names
PassTargets(c, registration, definitions, mutationName, mutationInput) ==
  LET i == FindByMutation(definitions, mutationName)
  IN IF i = 0 THEN {}
     ELSE AffectedKeys(c, registration, definitions[i], mutationInput)

\* an invalidation that clears every entry of the cache once a key is named
InvalidateWholeCache(c, keys) ==
  IF keys = {} THEN c ELSE [k \in {} |-> k]

\* an invalidation pass that leaves every entry in place
InvalidateNothing(c, keys) == c

RECURSIVE InvalidateAll(_, _)
InvalidateAll(c, keys) ==
  IF keys = {} THEN c
  ELSE LET key == CHOOSE k \in keys : TRUE
       IN InvalidateAll(WrapperInvalidate(c, key), keys \ {key})

\* the update function the update triggers are given: one item is removed
\* from the cached output
TriggerUpdate(cachedQueryOutput) ==
  IF cachedQueryOutput > 0 THEN cachedQueryOutput - 1 ELSE 0

\* a toValue that runs the trigger's update whatever the cache holds
UpdateInvokedAlways(cachedValue) == TRUE

\* whether toValue calls the trigger's update: cachedValue ? update(...) : undefined
UpdateInvoked(cachedValue) == Truthy(cachedValue)

\* a toValue that runs the trigger's update on an empty output when the cache
\* holds nothing
toValueOfNothing(serde, cachedValue) ==
  IF cachedValue = Undefined THEN TriggerUpdate(0)
  ELSE TriggerUpdate(DeserializeValue(serde, cachedValue))

\* toValue of the update pass: the trigger's update runs only on a truthy
\* cached value
toValue(serde, cachedValue) ==
  IF UpdateInvoked(cachedValue)
  THEN TriggerUpdate(DeserializeValue(serde, cachedValue))
  ELSE Undefined

\* registration.query.update({ forKey, toValue }) run `times` times in a row
RECURSIVE UpdateTimes(_, _, _, _)
UpdateTimes(c, key, serde, times) ==
  IF times = 0 THEN c
  ELSE UpdateTimes(WrapperUpdate(c, key, serde, toValue(serde, CacheGet(c, key))),
                   key, serde, times - 1)

RECURSIVE UpdateAll(_, _, _, _)
UpdateAll(c, keys, serde, times) ==
  IF keys = {} THEN c
  ELSE LET key == CHOOSE k \in keys : TRUE
       IN UpdateAll(UpdateTimes(c, key, serde, times[key]), keys \ {key}, serde, times)

\* The invalidation pass: every query's first matching definition is applied
\* to the keys listed as the pass starts. A query whose affects throws rejects
\* the pass; the other queries' invalidations have been started and complete.
\* The update pass runs only if the invalidation pass did not reject. Updates
\* of one key started by several queries race: each reads and then writes, so
\* the key ends as if between one and all of them had run in a row.
\* The outcome records, beside the error and the cache, what the affects
\* calls were given (cachedQueryKeys, by query), what they named, and the
\* keys for which a trigger's update was called (updateCalled).
onMutationOutput(regs, c, serde, mutationName, mutationInput) ==
  LET invTargets == [n \in DOMAIN regs |->
        PassTargets(c, regs[n], regs[n].invalidatedBy, mutationName, mutationInput)]
      invalidated == UNION {invTargets[n] : n \in DOMAIN regs}
      invThrows == \E n \in DOMAIN regs : PassThrows(regs[n].invalidatedBy, mutationName, mutationInput)
      c1 == InvalidateAll(c, invalidated)
      updTargets == [n \in DOMAIN regs |->
        PassTargets(c1, regs[n], regs[n].updatedBy, mutationName, mutationInput)]
      updated == UNION {updTargets[n] : n \in DOMAIN regs}
      updThrows == \E n \in DOMAIN regs : PassThrows(regs[n].updatedBy, mutationName, mutationInput)
      writers(key) == Cardinality({n \in DOMAIN regs : key \in updTargets[n]})
      schedules == {times \in [updated -> 1..Cardinality(DOMAIN regs)] :
                      \A key \in updated : times[key] <= writers(key)}
      listed(n) ==
        (IF FindByMutation(regs[n].invalidatedBy, mutationName) # 0
         THEN CachedQueryKeys(c, regs[n]) ELSE {})
        \cup (IF ~invThrows /\ FindByMutation(regs[n].updatedBy, mutationName) # 0
              THEN CachedQueryKeys(c1, regs[n]) ELSE {})
      cachedQueryKeys == [n \in DOMAIN regs |-> listed(n)]
  IN IF invThrows
     THEN {[err |-> "AffectsError", cache |-> c1,
            invalidated |-> invalidated, updated |-> {}, updateCalled |-> {},
            cachedQueryKeys |-> cachedQueryKeys]}
     ELSE {[err |-> IF updThrows THEN "AffectsError" ELSE "",
            cache |-> UpdateAll(c1, updated, serde, times),
            invalidated |-> invalidated,
            updated |-> updated,
            updateCalled |-> {key \in updated : UpdateInvoked(CacheGet(c1, key))},
            cachedQueryKeys |-> cachedQueryKeys] :
           times \in schedules}

----------------------------------------------------------------------------
(* Mutations *)

\* what the raw mutation logic does when called with mutationInput: it
\* resolves with an output made from its input, or it rejects
MutationOutput(mutationInput) == IF Len(mutationInput) = 2 THEN 1 ELSE 0

LogicOutcomes(mutationInput) ==
  {[status |-> "RESOLVED", output |-> MutationOutput(mutationInput), error |-> ""]}
    \cup {[status |-> "REJECTED", output |-> Undefined, error |-> e] :
            e \in LogicErrors}

\* an execute that wraps the logic's rejection in an error of its own
mutationExecuteWrappingError(regs, c, serde, mutationName, mutationInput, logic) ==
  IF logic.status = "REJECTED"
  THEN {[settled |-> "rejected", output |-> Undefined, error |-> "MutationError",
         dispatched |-> FALSE, cache |-> c, dispatch |-> <<>>]}
  ELSE {[settled |-> IF d.err = "" THEN "resolved" ELSE "rejected",
         output |-> IF d.err = "" THEN logic.output ELSE Undefined,
         error |-> d.err,
         dispatched |-> TRUE, cache |-> d.cache, dispatch |-> d] :
        d \in onMutationOutput(regs, c, serde, mutationName, mutationInput)}

\* execute of withRemoteStateMutationRegistration: await the logic, then
\* await onMutationOutput, then return the logic's result. A rejection of
\* either await rejects execute with that error.
mutationExecute(regs, c, serde, mutationName, mutationInput, logic) ==
  IF logic.status = "REJECTED"
  THEN {[settled |-> "rejected", output |-> Undefined, error |-> logic.error,
         dispatched |-> FALSE, cache |-> c, dispatch |-> <<>>]}
  ELSE {[settled |-> IF d.err = "" THEN "resolved" ELSE "rejected",
         output |-> IF d.err = "" THEN logic.output ELSE Undefined,
         error |-> d.err,
         dispatched |-> TRUE, cache |-> d.cache, dispatch |-> d] :
        d \in onMutationOutput(regs, c, serde, mutationName, mutationInput)}

\* withRemoteStateMutationRegistration(logic, options): nothing is stored in
\* the context; the caller gets { execute, name } or the naming error
withRemoteStateMutationRegistration(logicName, optionsName) ==
  LET named == extractNameFromRegistrationInputs(logicName, optionsName)
  IN /\ last' = [op |-> "withRemoteStateMutationRegistration",
                 logicName |-> logicName, optionsName |-> optionsName,
                 err |-> named.err, name |-> named.value]
     /\ UNCHANGED <<queries, cache, ctxKeySer, valueSerde, caches, queriesOfPeer, tasks, remote>>

\* an execute whose dispatch removes from the registrations the trigger
\* definitions it has applied
ExecuteMutationConsumingTriggers(mutationName, mutationInput, logic) ==
  \E r \in mutationExecute(queries, cache, valueSerde, mutationName, mutationInput, logic) :
    /\ cache' = r.cache
    /\ queries' = [n \in DOMAIN queries |->
         IF r.dispatched
         THEN [queries[n] EXCEPT
                 !.invalidatedBy =
                   SelectSeq(@, LAMBDA definition : definition.mutation # mutationName),
                 !.updatedBy =
                   SelectSeq(@, LAMBDA definition : definition.mutation # mutationName)]
         ELSE queries[n]]
    /\ last' = [op |-> "mutation.execute", mutation |-> mutationName,
                input |-> mutationInput, logic |-> logic,
                dispatched |-> r.dispatched,
                settled |-> r.settled, output |-> r.output, error |-> r.error,
                invalidated |-> IF r.dispatched THEN r.dispatch.invalidated ELSE {},
                updated |-> IF r.dispatched THEN r.dispatch.updated ELSE {},
                updateCalled |-> IF r.dispatched THEN r.dispatch.updateCalled ELSE {},
                cachedQueryKeys |-> IF r.dispatched THEN r.dispatch.cachedQueryKeys
                                    ELSE <<>>]
    /\ UNCHANGED <<ctxKeySer, valueSerde, caches, queriesOfPeer, tasks, remote>>

\* mutation.execute(...mutationInput) of a mutation registered as mutationName
ExecuteMutation(mutationName, mutationInput, logic) ==
  \E r \in mutationExecute(queries, cache, valueSerde, mutationName, mutationInput, logic) :
    /\ cache' = r.cache
    /\ last' = [op |-> "mutation.execute", mutation |-> mutationName,
                input |-> mutationInput, logic |-> logic,
                dispatched |-> r.dispatched,
                settled |-> r.settled, output |-> r.output, error |-> r.error,
                invalidated |-> IF r.dispatched THEN r.dispatch.invalidated ELSE {},
                updated |-> IF r.dispatched THEN r.dispatch.updated ELSE {},
                updateCalled |-> IF r.dispatched THEN r.dispatch.updateCalled ELSE {},
                cachedQueryKeys |-> IF r.dispatched THEN r.dispatch.cachedQueryKeys
                                    ELSE <<>>]
    /\ UNCHANGED <<queries, ctxKeySer, valueSerde, caches, queriesOfPeer, tasks, remote>>

----------------------------------------------------------------------------
(* Queries *)

\* an execute that calls the raw logic every time and never uses the cache
ExecuteQueryWithoutCaching(name, input, logicOutput) ==
  /\ name \in DOMAIN queries
  /\ last' = [op |-> "query.execute", name |-> name, input |-> input,
              key |-> QueryKey(queries[name], input), hit |-> FALSE,
              invoked |-> TRUE, result |-> logicOutput]
  /\ UNCHANGED <<queries, cache, ctxKeySer, valueSerde, caches, queriesOfPeer, tasks, remote>>

\* query.execute(input) of the query registered as name; logicOutput is what
\* the raw query logic returns if it is called
ExecuteQuery(name, input, logicOutput) ==
  /\ name \in DOMAIN queries
  /\ LET key == QueryKey(queries[name], input)
         r == WrapperExecute(cache, key, valueSerde, logicOutput)
     IN /\ cache' = r.cache
        /\ last' = [op |-> "query.execute", name |-> name, input |-> input,
                    key |-> key, hit |-> r.hit, invoked |-> ~r.hit,
                    result |-> r.result]
  /\ UNCHANGED <<queries, ctxKeySer, valueSerde, caches, queriesOfPeer, tasks, remote>>

\* an invalidate that addresses the entry by the serialized input alone,
\* without the query's namespace
InvalidateQueryWithoutNamespace(name, input) ==
  /\ name \in DOMAIN queries
  /\ cache' = WrapperInvalidate(cache, SerializeKey(queries[name].keySer, input))
  /\ last' = [op |-> "query.invalidate", name |-> name, input |-> input,
              key |-> QueryKey(queries[name], input),
              dropped |-> QueryKey(queries[name], input) \in DOMAIN cache]
  /\ UNCHANGED <<queries, ctxKeySer, valueSerde, caches, queriesOfPeer, tasks, remote>>

\* query.invalidate({ forInput: input }) of the query registered as name;
\* dropped tells whether an entry was cached for the input
InvalidateQuery(name, input) ==
  /\ name \in DOMAIN queries
  /\ cache' = WrapperInvalidate(cache, QueryKey(queries[name], input))
  /\ last' = [op |-> "query.invalidate", name |-> name, input |-> input,
              key |-> QueryKey(queries[name], input),
              dropped |-> QueryKey(queries[name], input) \in DOMAIN cache]
  /\ UNCHANGED <<queries, ctxKeySer, valueSerde, caches, queriesOfPeer, tasks, remote>>

\* the toValue a caller gives to query.update: it makes the new output from
\* the cached one, and from nothing when no output is cached
ManualToValue(cachedOutput) ==
  IF cachedOutput = Undefined THEN 1 ELSE 1 - cachedOutput

\* query.update({ forKey, toValue }) of the query registered as name, with
\* the key the caller computed
UpdateQuery(name, forKey) ==
  /\ name \in DOMAIN queries
  /\ LET from == IF forKey \in DOMAIN cache
                 THEN DeserializeValue(valueSerde, cache[forKey])
                 ELSE Undefined
         to == ManualToValue(from)
     IN /\ cache' = WrapperUpdate(cache, forKey, valueSerde, to)
        /\ last' = [op |-> "query.update", name |-> name, key |-> forKey,
                    from |-> from, to |-> to]
  /\ UNCHANGED <<queries, ctxKeySer, valueSerde, caches, queriesOfPeer, tasks, remote>>

\* the key a caller computes for query.update({ forKey }):
\* [query.name, defaultKeySerializationMethod({ forInput })].join('.')
CallerKey(name, input) ==
  name \o <<".">> \o defaultKeySerializationMethod(input)

----------------------------------------------------------------------------
(* A context whose cache is resolved from the input of each call:          *)
(* cache: ({ fromInput }) => fromInput[1].cache. A call's input is its     *)
(* arguments and the cache instance it carries. The instance holds only    *)
(* methods, so it adds nothing to the serialized key.                      *)

Calls == [args : Inputs, cache : CacheInstances]

\* the resolver the context is created with
CacheFromInput(call) == call.cache

\* the instance a trigger's affects may name whatever the mutation's input
\* carries
PinnedCache == "c2"

\* the affects functions of the triggers: "keys" names every cached query
\* key, "inputs" names the query input made of the mutation's arguments and
\* the mutation's cache, "pinned" names the query input made of the
\* mutation's arguments and the pinned instance
AffectsKindsOfCalls == {"keys", "inputs", "pinned"}
TriggersOfCalls == [mutation : {<<"m">>}, affects : AffectsKindsOfCalls]

AffectsOfCall(kind, mutationCall, cachedQueryKeys) ==
  IF kind = "keys" THEN [keys |-> cachedQueryKeys, inputs |-> {}]
  ELSE IF kind = "inputs" THEN [keys |-> {}, inputs |-> {mutationCall}]
  ELSE [keys |-> {},
        inputs |-> {[args |-> mutationCall.args, cache |-> PinnedCache]}]

\* the entries the pass of one query acts on, each with the instance it is
\* addressed in: keys are listed from and addressed in mutationCache
\* ({ forKey, cache: mutationCache }); inputs are handed to the wrapper
\* without a cache ({ forInput }), which resolves the instance from forInput
TargetsOfCall(stores, registration, definitions, mutationName, mutationCall) ==
  LET i == FindByMutation(definitions, mutationName)
      mutationCache == CacheFromInput(mutationCall)
  IN IF i = 0 THEN {}
     ELSE LET named == AffectsOfCall(definitions[i].affects, mutationCall,
                         CachedQueryKeys(stores[mutationCache], registration))
          IN {[cache |-> mutationCache, key |-> key] : key \in named.keys}
             \cup {[cache |-> CacheFromInput(forInput),
                    key |-> QueryKey(registration, forInput.args)] :
                     forInput \in named.inputs}

KeysIn(targets, instance) == {t.key : t \in {x \in targets : x.cache = instance}}

\* onMutationOutput of a context whose cache is a resolver: the invalidation
\* pass, then the update pass, over the instances the targets are addressed in
onMutationOutputOfCall(regs, stores, serde, mutationName, mutationCall) ==
  LET invalidated == UNION {TargetsOfCall(stores, regs[n], regs[n].invalidatedBy,
                                          mutationName, mutationCall) : n \in DOMAIN regs}
      stores1 == [instance \in DOMAIN stores |->
                    InvalidateAll(stores[instance], KeysIn(invalidated, instance))]
      updTargets == [n \in DOMAIN regs |->
                       TargetsOfCall(stores1, regs[n], regs[n].updatedBy,
                                     mutationName, mutationCall)]
      updated == UNION {updTargets[n] : n \in DOMAIN regs}
      writers(t) == Cardinality({n \in DOMAIN regs : t \in updTargets[n]})
      schedules == {times \in [updated -> 1..Cardinality(DOMAIN regs)] :
                      \A t \in updated : times[t] <= writers(t)}
  IN {[caches |-> [instance \in DOMAIN stores |->
                     UpdateAll(stores1[instance], KeysIn(updated, instance), serde,
                               [k \in KeysIn(updated, instance) |->
                                  times[[cache |-> instance, key |-> k]]])],
       mutationCache |-> CacheFromInput(mutationCall),
       invalidated |-> invalidated,
       updated |-> updated] :
      times \in schedules}

\* query.execute(...call) of the query registered as name: the wrapper
\* resolves the instance from the call's input
ExecuteQueryOfCall(name, call, logicOutput) ==
  /\ name \in DOMAIN queries
  /\ LET key == QueryKey(queries[name], call.args)
         instance == CacheFromInput(call)
         r == WrapperExecute(caches[instance], key, valueSerde, logicOutput)
     IN /\ caches' = [caches EXCEPT ![instance] = r.cache]
        /\ last' = [op |-> "query.execute", name |-> name, input |-> call,
                    key |-> key, hit |-> r.hit, invoked |-> ~r.hit,
                    result |-> r.result]
  /\ UNCHANGED <<queries, cache, ctxKeySer, valueSerde, queriesOfPeer, tasks, remote>>

\* mutation.execute(...call) of a mutation registered as mutationName
ExecuteMutationOfCall(mutationName, mutationCall, logic) ==
  /\ IF logic.status = "REJECTED"
     THEN /\ caches' = caches
          /\ last' = [op |-> "mutation.execute", mutation |-> mutationName,
                      input |-> mutationCall, dispatched |-> FALSE,
                      settled |-> "rejected", error |-> logic.error,
                      mutationCache |-> CacheFromInput(mutationCall),
                      invalidated |-> {}, updated |-> {}]
     ELSE \E d \in onMutationOutputOfCall(queries, caches, valueSerde,
                                          mutationName, mutationCall) :
            /\ caches' = d.caches
            /\ last' = [op |-> "mutation.execute", mutation |-> mutationName,
                        input |-> mutationCall, dispatched |-> TRUE,
                        settled |-> "resolved", error |-> "",
                        mutationCache |-> d.mutationCache,
                        invalidated |-> d.invalidated, updated |-> d.updated]
  /\ UNCHANGED <<queries, cache, ctxKeySer, valueSerde, queriesOfPeer, tasks, remote>>

----------------------------------------------------------------------------
(* A second context, created the same way and given the same cache store:  *)
(* its registrations are its own, the entries are shared                   *)

\* a registration of the peer that looks the name up in the registry of the
\* first context, as if the contexts held one registry
withRemoteStateQueryCachingInOneRegistry(logicName, optionsName, optionsKeySer) ==
  LET named == extractNameFromRegistrationInputs(logicName, optionsName)
      registered == registerQueryToRemoteStateContext(queries,
                      NewRegistration(named.value, optionsKeySer, ctxKeySer))
      failed == named.err # "" \/ registered.err # ""
  IN /\ queriesOfPeer' = IF failed THEN queriesOfPeer ELSE registered.queries
     /\ last' = [op |-> "peer.withRemoteStateQueryCaching",
                 logicName |-> logicName, optionsName |-> optionsName,
                 err |-> IF named.err # "" THEN named.err ELSE registered.err,
                 name |-> named.value]
     /\ UNCHANGED <<queries, cache, ctxKeySer, valueSerde, caches, tasks, remote>>

withRemoteStateQueryCachingOfPeer(logicName, optionsName, optionsKeySer) ==
  LET named == extractNameFromRegistrationInputs(logicName, optionsName)
      registered == registerQueryToRemoteStateContext(queriesOfPeer,
                      NewRegistration(named.value, optionsKeySer, ctxKeySer))
  IN /\ queriesOfPeer' = IF named.err # "" THEN queriesOfPeer ELSE registered.queries
     /\ last' = [op |-> "peer.withRemoteStateQueryCaching",
                 logicName |-> logicName, optionsName |-> optionsName,
                 err |-> IF named.err # "" THEN named.err ELSE registered.err,
                 name |-> named.value]
     /\ UNCHANGED <<queries, cache, ctxKeySer, valueSerde, caches, tasks, remote>>

addTriggerOfPeer(name, invalidatedBy, updatedBy) ==
  /\ name \in DOMAIN queriesOfPeer
  /\ queriesOfPeer' = [queriesOfPeer EXCEPT
       ![name].invalidatedBy = @ \o invalidatedBy,
       ![name].updatedBy = @ \o updatedBy]
  /\ last' = [op |-> "peer.addTrigger", name |-> name]
  /\ UNCHANGED <<queries, cache, ctxKeySer, valueSerde, caches, tasks, remote>>

\* an execute of the peer's query that keeps entries of its own, apart from
\* the shared store, and so calls the raw logic
ExecuteQueryOfPeerApart(name, input, logicOutput) ==
  /\ name \in DOMAIN queriesOfPeer
  /\ last' = [op |-> "peer.query.execute", name |-> name, input |-> input,
              key |-> QueryKey(queriesOfPeer[name], input), hit |-> FALSE,
              invoked |-> TRUE, result |-> logicOutput]
  /\ UNCHANGED <<queries, cache, ctxKeySer, valueSerde, caches, queriesOfPeer, tasks, remote>>

\* query.execute(input) of the query the peer registered as name
ExecuteQueryOfPeer(name, input, logicOutput) ==
  /\ name \in DOMAIN queriesOfPeer
  /\ LET key == QueryKey(queriesOfPeer[name], input)
         r == WrapperExecute(cache, key, valueSerde, logicOutput)
     IN /\ cache' = r.cache
        /\ last' = [op |-> "peer.query.execute", name |-> name, input |-> input,
                    key |-> key, hit |-> r.hit, invoked |-> ~r.hit,
                    result |-> r.result]
  /\ UNCHANGED <<queries, ctxKeySer, valueSerde, caches, queriesOfPeer, tasks, remote>>

\* mutation.execute(...mutationInput) of a mutation the peer registered as
\* mutationName: the dispatch runs over the peer's registrations
ExecuteMutationOfPeer(mutationName, mutationInput, logic) ==
  \E r \in mutationExecute(queriesOfPeer, cache, valueSerde, mutationName, mutationInput, logic) :
    /\ cache' = r.cache
    /\ last' = [op |-> "peer.mutation.execute", mutation |-> mutationName,
                input |-> mutationInput, logic |-> logic,
                dispatched |-> r.dispatched,
                settled |-> r.settled, output |-> r.output, error |-> r.error,
                invalidated |-> IF r.dispatched THEN r.dispatch.invalidated ELSE {},
                updated |-> IF r.dispatched THEN r.dispatch.updated ELSE {},
                updateCalled |-> IF r.dispatched THEN r.dispatch.updateCalled ELSE {}]
    /\ UNCHANGED <<queries, ctxKeySer, valueSerde, caches, queriesOfPeer, tasks, remote>>

----------------------------------------------------------------------------
(* Executions followed await by await. A mutation's execute awaits its     *)
(* logic, then onMutationOutput: the invalidation pass, then the update    *)
(* pass. In a pass every registration lists the keys, calls affects,       *)
(* starts the operations by key together and awaits them, then starts the  *)
(* operations by input together and awaits them. A query's execute reads   *)
(* the cache and, on a miss, awaits its logic and then writes the output.  *)

\* where each registration stands as a pass begins
StagesOf(regs, pass, mutationName) ==
  [n \in DOMAIN regs |->
     IF FindByMutation(IF pass = "invalidation" THEN regs[n].invalidatedBy
                       ELSE regs[n].updatedBy, mutationName) # 0
     THEN "list" ELSE "done"]

NothingOf(regs) == [n \in DOMAIN regs |-> {}]

\* whether no execution is in flight
AllIdle == \A t \in TaskIds : tasks[t].pc = "idle"

\* an execute that starts the dispatch without awaiting its logic
MutationExecuteStartsDispatching(t, mutationName, mutationInput) ==
  /\ tasks[t].pc = "idle"
  /\ tasks' = [tasks EXCEPT ![t] =
       [Idle EXCEPT !.pc = "invalidation", !.logic = "pending",
                    !.mutation = mutationName, !.input = mutationInput,
                    !.stage = StagesOf(queries, "invalidation", mutationName),
                    !.pending = NothingOf(queries), !.later = NothingOf(queries),
                    !.held = NothingOf(queries)]]
  /\ UNCHANGED <<queries, cache, ctxKeySer, valueSerde, caches, queriesOfPeer, remote, last>>

\* mutation.execute(...mutationInput) is called: logic(...args) is called and
\* awaited
MutationExecuteStarts(t, mutationName, mutationInput) ==
  /\ tasks[t].pc = "idle"
  /\ tasks' = [tasks EXCEPT ![t] =
       [Idle EXCEPT !.pc = "logic", !.logic = "pending",
                    !.mutation = mutationName, !.input = mutationInput]]
  /\ UNCHANGED <<queries, cache, ctxKeySer, valueSerde, caches, queriesOfPeer, remote, last>>

\* the logic settles. Resolved: the remote state has its next version and
\* onMutationOutput is called, every registration with a definition for the
\* mutation listing the keys. Rejected: execute rejects with the error.
MutationLogicSettles(t, logic) ==
  /\ tasks[t].pc = "logic"
  /\ IF logic.status = "REJECTED"
     THEN /\ tasks' = [tasks EXCEPT ![t] = Idle]
          /\ last' = [op |-> "mutation.execute", task |-> t,
                      mutation |-> tasks[t].mutation, input |-> tasks[t].input,
                      settled |-> "rejected", error |-> logic.error,
                      version |-> remote, invalidated |-> {}, read |-> {}]
          /\ UNCHANGED remote
     ELSE /\ remote' = remote + 1
          /\ tasks' = [tasks EXCEPT ![t] =
               [@ EXCEPT !.pc = "invalidation", !.logic = "resolved",
                         !.observed = remote + 1,
                         !.stage = StagesOf(queries, "invalidation", tasks[t].mutation),
                         !.pending = NothingOf(queries), !.later = NothingOf(queries),
                         !.held = NothingOf(queries)]]
          /\ UNCHANGED last
  /\ UNCHANGED <<queries, cache, ctxKeySer, valueSerde, caches, queriesOfPeer>>

\* mutationCache.keys() of registration n resolves: affects is called with
\* the keys listed, the operations by key are started together, and those by
\* input are left for when the ones by key have completed
PassListed(t, n) ==
  /\ tasks[t].pc \in {"invalidation", "update"}
  /\ n \in DOMAIN tasks[t].stage
  /\ tasks[t].stage[n] = "list"
  /\ LET definitions == IF tasks[t].pc = "invalidation" THEN queries[n].invalidatedBy
                        ELSE queries[n].updatedBy
         definition == definitions[FindByMutation(definitions, tasks[t].mutation)]
         named == Affects(definition.affects, tasks[t].input,
                          CachedQueryKeys(cache, queries[n]))
         byInput == {QueryKey(queries[n], input) : input \in named.inputs}
     IN tasks' = [tasks EXCEPT ![t] =
          [@ EXCEPT !.stage[n] = IF named.keys # {} THEN "keys" ELSE "inputs",
                    !.pending[n] = IF named.keys # {} THEN named.keys ELSE byInput,
                    !.later[n] = IF named.keys # {} THEN byInput ELSE {},
                    !.invalidated = IF tasks[t].pc = "invalidation"
                                    THEN @ \cup named.keys \cup byInput ELSE @]]
  /\ UNCHANGED <<queries, cache, ctxKeySer, valueSerde, caches, queriesOfPeer, remote, last>>

\* an invalidation that was started completes: the entry is gone
InvalidationCompletes(t, n, key) ==
  /\ tasks[t].pc = "invalidation"
  /\ n \in DOMAIN tasks[t].pending
  /\ key \in tasks[t].pending[n]
  /\ cache' = WrapperInvalidate(cache, key)
  /\ tasks' = [tasks EXCEPT ![t].pending[n] = @ \ {key}]
  /\ UNCHANGED <<queries, ctxKeySer, valueSerde, caches, queriesOfPeer, remote, last>>

\* an update that was started reads what the cache holds for its key
UpdateReads(t, n, key) ==
  /\ tasks[t].pc = "update"
  /\ n \in DOMAIN tasks[t].pending
  /\ key \in tasks[t].pending[n]
  /\ LET h == [key |-> key, value |-> CacheGet(cache, key)]
     IN tasks' = [tasks EXCEPT ![t] =
          [@ EXCEPT !.pending[n] = @ \ {key},
                    !.held[n] = @ \cup {h},
                    !.read = @ \cup {h}]]
  /\ UNCHANGED <<queries, cache, ctxKeySer, valueSerde, caches, queriesOfPeer, remote, last>>

\* an update that has read writes the value toValue makes of what it read
UpdateWrites(t, n, h) ==
  /\ tasks[t].pc = "update"
  /\ n \in DOMAIN tasks[t].held
  /\ h \in tasks[t].held[n]
  /\ cache' = WrapperUpdate(cache, h.key, valueSerde, toValue(valueSerde, h.value))
  /\ tasks' = [tasks EXCEPT ![t].held[n] = @ \ {h}]
  /\ UNCHANGED <<queries, ctxKeySer, valueSerde, caches, queriesOfPeer, remote, last>>

\* a pass in which a registration, once its operations have completed, lists
\* the keys again instead of being done
StageAdvancesToListing(t, n) ==
  /\ tasks[t].pc \in {"invalidation", "update"}
  /\ n \in DOMAIN tasks[t].stage
  /\ tasks[t].stage[n] \in {"keys", "inputs"}
  /\ tasks[t].pending[n] = {}
  /\ tasks[t].held[n] = {}
  /\ tasks' = [tasks EXCEPT ![t] =
       IF tasks[t].stage[n] = "keys"
       THEN [@ EXCEPT !.stage[n] = "inputs", !.pending[n] = tasks[t].later[n],
                      !.later[n] = {}]
       ELSE [@ EXCEPT !.stage[n] = "list"]]
  /\ UNCHANGED <<queries, cache, ctxKeySer, valueSerde, caches, queriesOfPeer, remote, last>>

\* the operations a registration awaits have all completed: those by input
\* are started, or the registration is done with the pass
StageAdvances(t, n) ==
  /\ tasks[t].pc \in {"invalidation", "update"}
  /\ n \in DOMAIN tasks[t].stage
  /\ tasks[t].stage[n] \in {"keys", "inputs"}
  /\ tasks[t].pending[n] = {}
  /\ tasks[t].held[n] = {}
  /\ tasks' = [tasks EXCEPT ![t] =
       IF tasks[t].stage[n] = "keys"
       THEN [@ EXCEPT !.stage[n] = "inputs", !.pending[n] = tasks[t].later[n],
                      !.later[n] = {}]
       ELSE [@ EXCEPT !.stage[n] = "done"]]
  /\ UNCHANGED <<queries, cache, ctxKeySer, valueSerde, caches, queriesOfPeer, remote, last>>

\* an onMutationOutput that begins the update pass without awaiting the
\* invalidation pass
PassEndsEarly(t) ==
  /\ tasks[t].pc = "invalidation"
  /\ tasks' = [tasks EXCEPT ![t] =
       [@ EXCEPT !.pc = "update",
                 !.stage = StagesOf(queries, "update", tasks[t].mutation)]]
  /\ UNCHANGED <<queries, cache, ctxKeySer, valueSerde, caches, queriesOfPeer, remote, last>>

\* every registration is done with the invalidation pass: the update pass
\* begins
PassEnds(t) ==
  /\ tasks[t].pc = "invalidation"
  /\ \A n \in DOMAIN tasks[t].stage : tasks[t].stage[n] = "done"
  /\ tasks' = [tasks EXCEPT ![t] =
       [@ EXCEPT !.pc = "update",
                 !.stage = StagesOf(queries, "update", tasks[t].mutation)]]
  /\ UNCHANGED <<queries, cache, ctxKeySer, valueSerde, caches, queriesOfPeer, remote, last>>

\* an execute that resolves without awaiting onMutationOutput
MutationExecuteResolvesEarly(t) ==
  /\ tasks[t].pc \in {"invalidation", "update"}
  /\ tasks' = [tasks EXCEPT ![t] = Idle]
  /\ last' = [op |-> "mutation.execute", task |-> t,
              mutation |-> tasks[t].mutation, input |-> tasks[t].input,
              settled |-> "resolved", error |-> "",
              version |-> tasks[t].observed,
              invalidated |-> tasks[t].invalidated, read |-> tasks[t].read]
  /\ UNCHANGED <<queries, cache, ctxKeySer, valueSerde, caches, queriesOfPeer, remote>>

\* every registration is done with the update pass: onMutationOutput
\* resolves and execute resolves with the logic's result
MutationExecuteResolves(t) ==
  /\ tasks[t].pc = "update"
  /\ \A n \in DOMAIN tasks[t].stage : tasks[t].stage[n] = "done"
  /\ tasks' = [tasks EXCEPT ![t] = Idle]
  /\ last' = [op |-> "mutation.execute", task |-> t,
              mutation |-> tasks[t].mutation, input |-> tasks[t].input,
              settled |-> "resolved", error |-> "",
              version |-> tasks[t].observed,
              invalidated |-> tasks[t].invalidated, read |-> tasks[t].read]
  /\ UNCHANGED <<queries, cache, ctxKeySer, valueSerde, caches, queriesOfPeer, remote>>

\* query.execute(input) is called: a cached entry is returned; on a miss the
\* logic is called, reads the remote state, and is awaited
QueryExecuteStarts(name, input) ==
  /\ name \in DOMAIN queries
  /\ tasks[QueryTask].pc = "idle"
  /\ LET key == QueryKey(queries[name], input)
     IN IF key \in DOMAIN cache
        THEN /\ last' = [op |-> "query.execute", name |-> name, input |-> input,
                         key |-> key, hit |-> TRUE, invoked |-> FALSE,
                         result |-> DeserializeValue(valueSerde, cache[key])]
             /\ UNCHANGED tasks
        ELSE /\ tasks' = [tasks EXCEPT ![QueryTask] =
                  [Idle EXCEPT !.pc = "logic", !.logic = "pending", !.name = name,
                               !.input = input, !.observed = remote]]
             /\ UNCHANGED last
  /\ UNCHANGED <<queries, cache, ctxKeySer, valueSerde, caches, queriesOfPeer, remote>>

\* the query's logic resolves with what it read: the output is written to
\* the cache and returned
QueryLogicSettles ==
  /\ tasks[QueryTask].pc = "logic"
  /\ LET name == tasks[QueryTask].name
         input == tasks[QueryTask].input
         key == QueryKey(queries[name], input)
         output == tasks[QueryTask].observed
     IN /\ cache' = CacheSet(cache, key, SerializeValue(valueSerde, output))
        /\ last' = [op |-> "query.execute", name |-> name, input |-> input,
                    key |-> key, hit |-> FALSE, invoked |-> TRUE, result |-> output]
  /\ tasks' = [tasks EXCEPT ![QueryTask] = Idle]
  /\ UNCHANGED <<queries, ctxKeySer, valueSerde, caches, queriesOfPeer, remote>>

\* the executions of mutations whose logic has been or is being called
MutationsCalled ==
  (remote - RemoteStart)
    + Cardinality({t \in MutationTasks : tasks[t].pc = "logic"})

----------------------------------------------------------------------------

Arms(definitions) == {<<>>} \cup {<<d>> : d \in definitions}

Next ==
  \/ \E logicName \in QueryNames \cup {NoName}, optionsName \in QueryNames \cup {NoName} :
       withRemoteStateQueryCaching(logicName, optionsName, "none")
  \/ \E logicName \in MutationNames \cup {NoName}, optionsName \in MutationNames \cup {NoName} :
       withRemoteStateMutationRegistration(logicName, optionsName)
  \/ \E name \in QueryNames, i \in Arms(InvalidationTriggers), u \in Arms(UpdateTriggers) :
       /\ TriggerCount(queries, DOMAIN queries) + Len(i) + Len(u) <= MaxTriggers
       /\ addTrigger(name, i, u)
  \/ \E name \in QueryNames, input \in Inputs, logicOutput \in Outputs :
       ExecuteQuery(name, input, logicOutput)
  \/ \E name \in QueryNames, input \in Inputs :
       InvalidateQuery(name, input)
  \/ \E mutationName \in MutationNames, mutationInput \in Inputs \cup {BadInput} :
       \E logic \in LogicOutcomes(mutationInput) :
       ExecuteMutation(mutationName, mutationInput, logic)

Spec == Init /\ [][Next]_vars

----------------------------------------------------------------------------
(* One query that is given several trigger definitions, among them several  *)
(* for the same mutation                                                     *)

TriggersOfFirst == [mutation : {<<"m">>}, affects : AffectsKinds]

NextFirst ==
  \/ withRemoteStateQueryCaching(<<"a">>, NoName, "none")
  \/ \E i \in Arms(TriggersOfFirst), u \in Arms(TriggersOfFirst) :
       /\ TriggerCount(queries, DOMAIN queries) + Len(i) + Len(u) <= MaxTriggersOfQuery
       /\ addTrigger(<<"a">>, i, u)
  \/ \E input \in Inputs, logicOutput \in Outputs :
       ExecuteQuery(<<"a">>, input, logicOutput)
  \/ \E input \in Inputs :
       UpdateQuery(<<"a">>, CallerKey(<<"a">>, input))
  \/ \E mutationInput \in Inputs \cup {BadInput} :
       \E logic \in LogicOutcomes(mutationInput) :
       ExecuteMutation(<<"m">>, mutationInput, logic)

SpecFirst == Init /\ [][NextFirst]_vars

----------------------------------------------------------------------------
(* Registration alone: queries and mutations registered under every        *)
(* combination of names, and triggers added to the registered queries      *)

NextNames ==
  \/ \E logicName \in QueryNames \cup {NoName}, optionsName \in QueryNames \cup {NoName} :
       withRemoteStateQueryCaching(logicName, optionsName, "none")
  \/ \E logicName \in MutationNames \cup {NoName}, optionsName \in MutationNames \cup {NoName} :
       withRemoteStateMutationRegistration(logicName, optionsName)
  \/ \E name \in QueryNames, i \in Arms(InvalidationTriggers), u \in Arms(UpdateTriggers) :
       /\ TriggerCount(queries, DOMAIN queries) + Len(i) + Len(u) <= MaxTriggers
       /\ addTrigger(name, i, u)

SpecNames == Init /\ [][NextNames]_vars

----------------------------------------------------------------------------
(* Registration alone, of queries that are given several triggers each     *)

NextOfLists ==
  \/ \E logicName \in QueryNames \cup {NoName}, optionsName \in QueryNames \cup {NoName} :
       withRemoteStateQueryCaching(logicName, optionsName, "none")
  \/ \E name \in QueryNames, i \in Arms(InvalidationTriggers), u \in Arms(UpdateTriggers) :
       /\ TriggerCount(queries, DOMAIN queries) + Len(i) + Len(u) <= MaxTriggersOfQuery
       /\ addTrigger(name, i, u)

SpecOfLists == Init /\ [][NextOfLists]_vars

----------------------------------------------------------------------------
(* Queries whose names hold a '.', with key serialization methods given by  *)
(* the context and by the queries                                            *)

DottedNames == {<<"a">>, <<"a", ".", "b">>}
KeySerOptions == {"none", "custom"}         \* options.serialize?.key of a query
ContextKeySerOptions == {"none", "context"} \* serialize?.key of the context

InitKeys ==
  /\ queries = [n \in {} |-> n]
  /\ cache = [k \in {} |-> k]
  /\ ctxKeySer \in ContextKeySerOptions
  /\ valueSerde \in {"noOp", "text"}
  /\ caches = [instance \in CacheInstances |-> [k \in {} |-> k]]
  /\ queriesOfPeer = [n \in {} |-> n]
  /\ tasks = [t \in TaskIds |-> Idle]
  /\ remote = RemoteStart
  /\ last = [op |-> "createRemoteStateCachingContext"]

NextKeys ==
  \/ \E name \in DottedNames, optionsKeySer \in KeySerOptions :
       withRemoteStateQueryCaching(NoName, name, optionsKeySer)
  \/ \E name \in DottedNames, input \in Inputs, logicOutput \in Outputs :
       ExecuteQuery(name, input, logicOutput)
  \/ \E name \in DottedNames, input \in Inputs :
       InvalidateQuery(name, input)

SpecKeys == InitKeys /\ [][NextKeys]_vars

----------------------------------------------------------------------------
(* One query of a context whose cache is resolved from the input of each   *)
(* call                                                                    *)

NextOfCalls ==
  \/ withRemoteStateQueryCaching(<<"a">>, NoName, "none")
  \/ \E i \in Arms(TriggersOfCalls), u \in Arms(TriggersOfCalls) :
       /\ TriggerCount(queries, DOMAIN queries) + Len(i) + Len(u) <= MaxTriggers
       /\ addTrigger(<<"a">>, i, u)
  \/ \E call \in Calls, logicOutput \in Outputs :
       ExecuteQueryOfCall(<<"a">>, call, logicOutput)
  \/ \E mutationCall \in Calls :
       \E logic \in LogicOutcomes(mutationCall.args) :
       ExecuteMutationOfCall(<<"m">>, mutationCall, logic)

SpecOfCalls == Init /\ [][NextOfCalls]_vars

----------------------------------------------------------------------------
(* Two contexts over one cache store, each registering the query and its   *)
(* triggers                                                                *)

NextOfPeers ==
  \/ withRemoteStateQueryCaching(<<"a">>, NoName, "none")
  \/ withRemoteStateQueryCachingOfPeer(<<"a">>, NoName, "none")
  \/ \E i \in Arms(TriggersOfFirst), u \in Arms(TriggersOfFirst) :
       /\ TriggerCount(queries, DOMAIN queries) + Len(i) + Len(u) <= MaxTriggers
       /\ addTrigger(<<"a">>, i, u)
  \/ \E i \in Arms(TriggersOfFirst), u \in Arms(TriggersOfFirst) :
       /\ TriggerCount(queriesOfPeer, DOMAIN queriesOfPeer) + Len(i) + Len(u) <= MaxTriggers
       /\ addTriggerOfPeer(<<"a">>, i, u)
  \/ \E input \in Inputs, logicOutput \in Outputs :
       ExecuteQuery(<<"a">>, input, logicOutput)
  \/ \E input \in Inputs, logicOutput \in Outputs :
       ExecuteQueryOfPeer(<<"a">>, input, logicOutput)
  \/ \E mutationInput \in Inputs :
       \E logic \in LogicOutcomes(mutationInput) :
       ExecuteMutationOfPeer(<<"m">>, mutationInput, logic)

SpecOfPeers == Init /\ [][NextOfPeers]_vars

----------------------------------------------------------------------------
(* One query with triggers whose affects returns keys and inputs at once   *)

TriggersOfBoth == [mutation : {<<"m">>}, affects : {"both", "inputs"}]

NextOfBoth ==
  \/ withRemoteStateQueryCaching(<<"a">>, NoName, "none")
  \/ \E i \in Arms(TriggersOfBoth), u \in Arms(TriggersOfBoth) :
       /\ TriggerCount(queries, DOMAIN queries) + Len(i) + Len(u) <= MaxTriggers
       /\ addTrigger(<<"a">>, i, u)
  \/ \E input \in Inputs, logicOutput \in Outputs :
       ExecuteQuery(<<"a">>, input, logicOutput)
  \/ \E mutationInput \in Inputs :
       \E logic \in LogicOutcomes(mutationInput) :
       ExecuteMutation(<<"m">>, mutationInput, logic)

SpecOfBoth == Init /\ [][NextOfBoth]_vars

----------------------------------------------------------------------------
(* One execution of a mutation followed await by await, over entries that   *)
(* executes of the query cached                                             *)

NextOfPasses ==
  \/ AllIdle /\ withRemoteStateQueryCaching(<<"a">>, NoName, "none")
  \/ \E i \in Arms(TriggersOfBoth), u \in Arms(TriggersOfBoth) :
       /\ AllIdle
       /\ TriggerCount(queries, DOMAIN queries) + Len(i) + Len(u) <= MaxTriggers
       /\ addTrigger(<<"a">>, i, u)
  \/ \E input \in Inputs, logicOutput \in Outputs :
       ExecuteQuery(<<"a">>, input, logicOutput)
  \/ \E mutationInput \in Inputs :
       /\ MutationsCalled < MaxMutations
       /\ MutationExecuteStarts("t1", <<"m">>, mutationInput)
  \/ \E logic \in LogicOutcomes(tasks["t1"].input) : MutationLogicSettles("t1", logic)
  \/ \E n \in DOMAIN queries : PassListed("t1", n)
  \/ \E n \in DOMAIN queries, input \in Inputs :
       InvalidationCompletes("t1", n, QueryKey(queries[n], input))
  \/ \E n \in DOMAIN queries, input \in Inputs :
       UpdateReads("t1", n, QueryKey(queries[n], input))
  \/ \E n \in DOMAIN tasks["t1"].held : \E h \in tasks["t1"].held[n] :
       UpdateWrites("t1", n, h)
  \/ \E n \in DOMAIN queries : StageAdvances("t1", n)
  \/ PassEnds("t1")
  \/ MutationExecuteResolves("t1")

SpecOfPasses == Init /\ [][NextOfPasses]_vars

----------------------------------------------------------------------------
(* Executions that overlap: two of a mutation and one of the query, on one  *)
(* input                                                                    *)

TriggersOfRaces == [mutation : {<<"m">>}, affects : {"inputs"}]
InputOfRaces == <<"x">>

NextOfRaces ==
  \/ AllIdle /\ withRemoteStateQueryCaching(<<"a">>, NoName, "none")
  \/ \E i \in Arms(TriggersOfRaces), u \in Arms(TriggersOfRaces) :
       /\ AllIdle
       /\ TriggerCount(queries, DOMAIN queries) + Len(i) + Len(u) <= MaxTriggers
       /\ addTrigger(<<"a">>, i, u)
  \/ QueryExecuteStarts(<<"a">>, InputOfRaces)
  \/ QueryLogicSettles
  \/ \E t \in MutationTasks :
       /\ MutationsCalled < MaxMutations
       /\ MutationExecuteStarts(t, <<"m">>, InputOfRaces)
  \/ \E t \in MutationTasks : \E logic \in LogicOutcomes(tasks[t].input) :
       MutationLogicSettles(t, logic)
  \/ \E t \in MutationTasks, n \in DOMAIN queries : PassListed(t, n)
  \/ \E t \in MutationTasks, n \in DOMAIN queries :
       InvalidationCompletes(t, n, QueryKey(queries[n], InputOfRaces))
  \/ \E t \in MutationTasks, n \in DOMAIN queries :
       UpdateReads(t, n, QueryKey(queries[n], InputOfRaces))
  \/ \E t \in MutationTasks : \E n \in DOMAIN tasks[t].held :
       \E h \in tasks[t].held[n] : UpdateWrites(t, n, h)
  \/ \E t \in MutationTasks, n \in DOMAIN queries : StageAdvances(t, n)
  \/ \E t \in MutationTasks : PassEnds(t)
  \/ \E t \in MutationTasks : MutationExecuteResolves(t)

SpecOfRaces == Init /\ [][NextOfRaces]_vars

----------------------------------------------------------------------------
(* One execution of a mutation followed await by await, of a query that is  *)
(* given an invalidation trigger and an update trigger naming the same      *)
(* input                                                                    *)

NextOfOrder ==
  \/ AllIdle /\ withRemoteStateQueryCaching(<<"a">>, NoName, "none")
  \/ \E i \in Arms(TriggersOfRaces), u \in Arms(TriggersOfRaces) :
       /\ AllIdle
       /\ TriggerCount(queries, DOMAIN queries) + Len(i) + Len(u) <= MaxTriggersOfQuery
       /\ addTrigger(<<"a">>, i, u)
  \/ \E logicOutput \in Outputs :
       ExecuteQuery(<<"a">>, InputOfRaces, logicOutput)
  \/ /\ MutationsCalled < MaxMutations
     /\ MutationExecuteStarts("t1", <<"m">>, InputOfRaces)
  \/ \E logic \in LogicOutcomes(tasks["t1"].input) : MutationLogicSettles("t1", logic)
  \/ \E n \in DOMAIN queries : PassListed("t1", n)
  \/ \E n \in DOMAIN queries :
       InvalidationCompletes("t1", n, QueryKey(queries[n], InputOfRaces))
  \/ \E n \in DOMAIN queries :
       UpdateReads("t1", n, QueryKey(queries[n], InputOfRaces))
  \/ \E n \in DOMAIN tasks["t1"].held : \E h \in tasks["t1"].held[n] :
       UpdateWrites("t1", n, h)
  \/ \E n \in DOMAIN queries : StageAdvances("t1", n)
  \/ PassEnds("t1")
  \/ MutationExecuteResolves("t1")

\* the steps that settle what an execution of the mutation awaits: its
\* logic, the listings of keys, the cache reads and writes, and the
\* continuations that run once the awaited promises have settled
SettlesOfOrder ==
  \/ \E logic \in LogicOutcomes(tasks["t1"].input) : MutationLogicSettles("t1", logic)
  \/ \E n \in DOMAIN queries : PassListed("t1", n)
  \/ \E n \in DOMAIN queries :
       InvalidationCompletes("t1", n, QueryKey(queries[n], InputOfRaces))
  \/ \E n \in DOMAIN queries :
       UpdateReads("t1", n, QueryKey(queries[n], InputOfRaces))
  \/ \E n \in DOMAIN tasks["t1"].held : \E h \in tasks["t1"].held[n] :
       UpdateWrites("t1", n, h)
  \/ \E n \in DOMAIN queries : StageAdvances("t1", n)
  \/ PassEnds("t1")
  \/ MutationExecuteResolves("t1")

SpecOfOrder == Init /\ [][NextOfOrder]_vars

\* the same executions when whatever an execution awaits eventually settles
\* and the continuation that awaits it then runs
SpecOfOrderSettling == Init /\ [][NextOfOrder]_vars /\ WF_vars(SettlesOfOrder)

----------------------------------------------------------------------------
(* Properties of mutation.execute *)

\* whether some query holds a trigger definition for the mutation
HasTriggerOn(regs, mutationName) ==
  \E n \in DOMAIN regs :
    \/ FindByMutation(regs[n].invalidatedBy, mutationName) # 0
    \/ FindByMutation(regs[n].updatedBy, mutationName) # 0

\* C4: if the raw mutation logic throws and a trigger is registered for the
\* mutation, the trigger dispatch still runs before the error is re-thrown.
C4_DispatchRunsWhenLogicThrows ==
  (/\ last.op = "mutation.execute"
   /\ last.logic.status = "REJECTED"
   /\ HasTriggerOn(queries, last.mutation))
    => last.dispatched

\* C5: when the raw mutation logic rejects with error e, mutation.execute
\* rejects with exactly e, whatever triggers are registered.
C5_RejectionKeepsOriginalError ==
  (last.op = "mutation.execute" /\ last.logic.status = "REJECTED")
    => (last.settled = "rejected" /\ last.error = last.logic.error)

\* a mutation with a registered trigger and a cached entry has rejected
C5_Witness ==
  /\ last.op = "mutation.execute"
  /\ last.logic.status = "REJECTED"
  /\ last.settled = "rejected"
  /\ HasTriggerOn(queries, last.mutation)
  /\ DOMAIN cache # {}

\* C6: when the raw mutation logic resolves with output o, mutation.execute
\* resolves with o, for every set of registered queries and triggers.
C6_ResolvedOutputIsReturned ==
  (last.op = "mutation.execute" /\ last.logic.status = "RESOLVED")
    => (last.settled = "resolved" /\ last.output = last.logic.output)

----------------------------------------------------------------------------
(* Properties of registration *)

\* C7: registering a query under a name that is already registered fails
\* with a BadRequestError and leaves the context's query table (names,
\* registrations and their trigger lists) unchanged.
C7_DuplicateRegistrationFails ==
  [][(last'.op = "withRemoteStateQueryCaching" /\ last'.name \in DOMAIN queries)
       => (last'.err = "BadRequestError" /\ queries' = queries)]_vars

\* a registration has failed on a name whose registration holds a trigger
C7_Witness ==
  /\ last.op = "withRemoteStateQueryCaching"
  /\ last.err = "BadRequestError"
  /\ last.name \in DOMAIN queries
  /\ Len(queries[last.name].invalidatedBy) + Len(queries[last.name].updatedBy) > 0

Registrations == {"withRemoteStateQueryCaching", "withRemoteStateMutationRegistration"}

C16_UnnamedRejected ==
  (/\ last.op \in Registrations
   /\ last.logicName = NoName
   /\ last.optionsName = NoName)
    => last.err = "BadRequestError"

\* a registration was attempted without any name, and it failed
C16_Witness ==
  /\ last.op \in Registrations
  /\ last.logicName = NoName
  /\ last.optionsName = NoName
  /\ last.err = "BadRequestError"

\* C17: when exactly one of the function's name and the options' name is
\* present, or both are present and equal, that name is the registered name:
\* a mutation is returned under it; a query whose name is not taken is
\* returned under it, is stored under it and writes its keys under it.
C17_ResolvedName ==
  [][LET given == {last'.logicName, last'.optionsName} \ {NoName}
     IN (last'.op \in Registrations /\ Cardinality(given) = 1)
          => \A name \in given :
               /\ last'.op = "withRemoteStateMutationRegistration"
                    => (last'.err = "" /\ last'.name = name)
               /\ (last'.op = "withRemoteStateQueryCaching" /\ name \notin DOMAIN queries)
                    => /\ last'.err = ""
                       /\ last'.name = name
                       /\ name \in DOMAIN queries'
                       /\ queries'[name].name = name
                       /\ \A input \in Inputs :
                            StartsWith(QueryKey(queries'[name], input), name \o <<".">>)]_vars

\* a query whose function has no name was registered under the name of its
\* options
C17_Witness ==
  /\ last.op = "withRemoteStateQueryCaching"
  /\ last.logicName = NoName
  /\ last.optionsName # NoName
  /\ last.err = ""
  /\ last.name = last.optionsName
  /\ last.name \in DOMAIN queries

\* C18: a registration that fails with a naming error or a duplicate-name
\* error leaves the context as it was: no registration is added or replaced
\* and no trigger list changes.
C18_FailedRegistrationChangesNothing ==
  [][(last'.op \in Registrations /\ last'.err # "")
       => (queries' = queries /\ cache' = cache)]_vars

\* a registration failed on its names while a registered query held a trigger
C18_Witness ==
  /\ last.op \in Registrations
  /\ last.err = "BadRequestError"
  /\ last.name = NoName
  /\ \E n \in DOMAIN queries :
       Len(queries[n].invalidatedBy) + Len(queries[n].updatedBy) > 0

\* C25: addTrigger accepts exactly one of invalidatedBy and updatedBy: a
\* call that gives neither or both fails at the call and adds no trigger.
C25_AddTriggerTakesExactlyOne ==
  [][(last'.op = "addTrigger" /\ last'.arms # 1)
       => (last'.err # "" /\ queries' = queries)]_vars

----------------------------------------------------------------------------
(* Properties of the cached queries *)

\* C10: an execute of an input whose entry is cached returns the cached
\* output without calling the raw logic and leaves the cache as it is; an
\* execute of an input with no entry calls the raw logic once and caches its
\* output; so an execute that repeats the execute before it returns the same
\* result and does not call the raw logic again.
C10_CacheAsideIdempotence ==
  [][/\ (last'.op = "query.execute" /\ last'.key \in DOMAIN cache)
          => /\ ~last'.invoked
             /\ last'.result = DeserializeValue(valueSerde, cache[last'.key])
             /\ cache' = cache
     /\ (last'.op = "query.execute" /\ last'.key \notin DOMAIN cache)
          => /\ last'.invoked
             /\ last'.key \in DOMAIN cache'
             /\ DeserializeValue(valueSerde, cache'[last'.key]) = last'.result
     /\ (/\ last.op = "query.execute"
         /\ last'.op = "query.execute"
         /\ last'.name = last.name
         /\ last'.input = last.input)
          => (~last'.invoked /\ last'.result = last.result)]_vars

\* an execute was answered from the entry an earlier execute cached
C10_Witness ==
  /\ last.op = "query.execute"
  /\ last.hit
  /\ ~last.invoked
  /\ last.key \in DOMAIN cache
  /\ last.result = DeserializeValue(valueSerde, cache[last.key])

\* C11: after query.invalidate for an input, the entry is gone, and the next
\* query.execute with that input is a miss that calls the raw logic, returns
\* its output and caches it.
C11_InvalidationRoundTrip ==
  [][/\ last'.op = "query.invalidate" => last'.key \notin DOMAIN cache'
     /\ \A name \in DOMAIN queries : \A input \in Inputs : \A logicOutput \in Outputs :
          (/\ last.op = "query.invalidate"
           /\ last.name = name
           /\ last.input = input
           /\ ExecuteQuery(name, input, logicOutput))
            => /\ ~last'.hit
               /\ last'.invoked
               /\ last'.result = logicOutput
               /\ last'.key \in DOMAIN cache'
               /\ DeserializeValue(valueSerde, cache'[last'.key]) = logicOutput]_vars

\* an invalidate has dropped the entry that was cached for its input
C11_Witness ==
  /\ last.op = "query.invalidate"
  /\ last.dropped
  /\ last.key \notin DOMAIN cache

\* C12: after query.update addressed by the namespaced key, the entry holds
\* what toValue made from the previously cached output, and the next
\* query.execute for the input of that key returns it without calling the raw
\* logic.
C12_ManualUpdateByKey ==
  [][/\ last'.op = "query.update"
          => /\ last'.key \in DOMAIN cache'
             /\ DeserializeValue(valueSerde, cache'[last'.key])
                  = ManualToValue(IF last'.key \in DOMAIN cache
                                  THEN DeserializeValue(valueSerde, cache[last'.key])
                                  ELSE Undefined)
     /\ \A input \in Inputs : \A logicOutput \in Outputs :
          (/\ last.op = "query.update"
           /\ last.key = CallerKey(last.name, input)
           /\ ExecuteQuery(last.name, input, logicOutput))
            => /\ last'.hit
               /\ ~last'.invoked
               /\ last'.result = last.to]_vars

\* an update by key has replaced a cached output by another one
C12_Witness ==
  /\ last.op = "query.update"
  /\ last.from # Undefined
  /\ last.to # last.from
  /\ last.key \in DOMAIN cache
  /\ DeserializeValue(valueSerde, cache[last.key]) = last.to

----------------------------------------------------------------------------
(* Properties of the trigger dispatch *)

\* C2: a mutation's dispatch leaves every cached entry that the affects
\* functions did not name as it was, and the next execute of the query for
\* such an input is a hit that returns the entry's value without calling the
\* raw logic.
C2_UnnamedEntriesUntouched ==
  [][/\ last'.op = "mutation.execute"
          => \A key \in DOMAIN cache \ (last'.invalidated \cup last'.updated) :
               key \in DOMAIN cache' /\ cache'[key] = cache[key]
     /\ (/\ last.op = "mutation.execute"
         /\ last'.op = "query.execute"
         /\ last'.key \in DOMAIN cache
         /\ last'.key \notin last.invalidated \cup last.updated)
          => /\ last'.hit
             /\ ~last'.invoked
             /\ last'.result = DeserializeValue(valueSerde, cache[last'.key])]_vars

\* a dispatch has invalidated a cached entry of a query and another entry,
\* which no affects function named, is still cached
C2_Witness ==
  /\ last.op = "mutation.execute"
  /\ last.dispatched
  /\ \E n \in DOMAIN last.cachedQueryKeys :
       last.cachedQueryKeys[n] \cap last.invalidated # {}
  /\ \E key \in DOMAIN cache : key \notin last.invalidated \cup last.updated

\* C1: after a mutation has resolved, every entry named by the affects
\* function of an invalidation trigger on it is gone from the cache, and the
\* next execute of the query for such an entry is a miss that calls the raw
\* logic.
C1_NamedEntriesInvalidated ==
  [][/\ (last'.op = "mutation.execute" /\ last'.settled = "resolved")
          => \A n \in DOMAIN queries : \A i \in 1..Len(queries[n].invalidatedBy) :
               queries[n].invalidatedBy[i].mutation = last'.mutation
                 => \A key \in AffectedKeys(cache, queries[n],
                                            queries[n].invalidatedBy[i], last'.input) :
                      key \notin DOMAIN cache'
     /\ (/\ last.op = "mutation.execute"
         /\ last.settled = "resolved"
         /\ last'.op = "query.execute"
         /\ last'.key \in last.invalidated)
          => (~last'.hit /\ last'.invoked)]_vars

\* C3: after a mutation has resolved, every cached entry named by an update
\* trigger on it holds the trigger's update applied to its previous value.
C3_NamedEntriesUpdated ==
  [][(last'.op = "mutation.execute" /\ last'.settled = "resolved")
       => \A n \in DOMAIN queries : \A i \in 1..Len(queries[n].updatedBy) :
            queries[n].updatedBy[i].mutation = last'.mutation
              => \A key \in (AffectedKeys(cache, queries[n], queries[n].updatedBy[i],
                                           last'.input)
                              \cap DOMAIN cache) \ last'.invalidated :
                   /\ key \in DOMAIN cache'
                   /\ DeserializeValue(valueSerde, cache'[key])
                        = TriggerUpdate(DeserializeValue(valueSerde, cache[key]))]_vars

\* C13: the update function of a trigger is not called for a key that holds
\* no valid entry when the update pass runs (never cached, or invalidated by
\* the same dispatch).
C13_UpdateSkippedOnMiss ==
  [][last'.op = "mutation.execute"
       => \A key \in last'.updateCalled :
            key \in DOMAIN cache /\ key \notin last'.invalidated]_vars

\* an update trigger has named a key with no entry and its update function
\* was not called for it (serialized values are never falsy, so the key was
\* not cached)
C13_Witness ==
  /\ last.op = "mutation.execute"
  /\ last.dispatched
  /\ valueSerde = "text"
  /\ \E key \in last.updated : key \notin last.updateCalled /\ key \notin DOMAIN cache

\* C14: a failure of one trigger's affects does not keep the dispatch from
\* processing the other triggers: every invalidation and update definition
\* the dispatch selects whose affects does not fail has the keys it names
\* processed; in particular the update pass runs although the invalidation
\* pass failed.
C14_DispatchIsolatesFailures ==
  [][(last'.op = "mutation.execute" /\ last'.dispatched)
       => \A n \in DOMAIN queries :
            LET i == FindByMutation(queries[n].invalidatedBy, last'.mutation)
                u == FindByMutation(queries[n].updatedBy, last'.mutation)
                afterInvalidation == [k \in DOMAIN cache \ last'.invalidated |-> cache[k]]
            IN /\ (i # 0 /\ ~AffectsThrows(queries[n].invalidatedBy[i].affects, last'.input))
                    => \A key \in AffectedKeys(cache, queries[n],
                                               queries[n].invalidatedBy[i], last'.input) :
                         key \in last'.invalidated /\ key \notin DOMAIN cache'
               /\ (u # 0 /\ ~AffectsThrows(queries[n].updatedBy[u].affects, last'.input))
                    => AffectedKeys(afterInvalidation, queries[n],
                                    queries[n].updatedBy[u], last'.input)
                         \subseteq last'.updated]_vars

C8_NamespaceIsolation ==
  (last.op = "mutation.execute" /\ last.dispatched)
    => \A B \in DOMAIN last.cachedQueryKeys : \A A \in DOMAIN queries \ {B} :
         \A input \in Inputs :
           QueryKey(queries[A], input) \notin last.cachedQueryKeys[B]

\* C9: every key a query reads or writes is its name, a '.', and the key
\* serialization of the input; keys of queries with distinct names never
\* collide.
C9_KeysAreNamespaced ==
  /\ last.op \in {"query.execute", "query.invalidate"}
       => last.key = last.name \o <<".">>
                       \o SerializeKey(queries[last.name].keySer, last.input)
  /\ \A A \in DOMAIN queries : \A B \in DOMAIN queries \ {A} :
       \A inputOfA \in Inputs, inputOfB \in Inputs :
         QueryKey(queries[A], inputOfA) # QueryKey(queries[B], inputOfB)

----------------------------------------------------------------------------
(* Properties of a context whose cache is resolved from the call's input *)

\* C19: when the context's cache is a resolver function of the call's
\* input, every entry the dispatch of a mutation execution invalidates or
\* updates, by key or by input, is addressed in the cache resolved from that
\* mutation execution's input arguments, and no other cache is modified.
C19_DispatchTargetsMutationCache ==
  [][(last'.op = "mutation.execute" /\ last'.dispatched)
       => /\ \A t \in last'.invalidated \cup last'.updated :
               t.cache = last'.mutationCache
          /\ \A instance \in CacheInstances \ {last'.mutationCache} :
               caches'[instance] = caches[instance]]_vars

----------------------------------------------------------------------------
(* Properties of contexts that share one cache store *)

\* whether both contexts registered a query under the name, with the same
\* options and the same triggers
SameRegistration(name) ==
  /\ name \in DOMAIN queries
  /\ name \in DOMAIN queriesOfPeer
  /\ queries[name] = queriesOfPeer[name]

----------------------------------------------------------------------------
(* Properties of the executions followed await by await *)

\* the tasks whose dispatch is running
Dispatching == {t \in MutationTasks : tasks[t].pc \in {"invalidation", "update"}}

\* C26: within one dispatch, the invalidations of one query are started
\* together: while an invalidation of the query is still to complete, no
\* invalidation named by the same trigger, by key or by input, is still to be
\* started.
C26_InvalidationsStartedTogether ==
  \A t \in Dispatching : \A n \in DOMAIN tasks[t].stage :
    (tasks[t].pc = "invalidation" /\ tasks[t].pending[n] # {})
      => tasks[t].later[n] = {}

\* C27: in every execution of mutation.execute, the raw logic has settled
\* before any step of that execution's dispatch starts.
C27_LogicSettlesBeforeDispatch ==
  \A t \in Dispatching : tasks[t].logic = "resolved"

\* the dispatch of an execution is under way, an invalidation started, after
\* the logic wrote the remote state
C27_Witness ==
  \E t \in Dispatching :
    /\ tasks[t].logic = "resolved"
    /\ tasks[t].observed = remote
    /\ \E n \in DOMAIN tasks[t].pending : tasks[t].pending[n] # {}

\* C28: mutation.execute resolves only when its dispatch has completed: at
\* the step that resolves it, every registration is done with both passes
\* and no invalidation or update the dispatch started is still to complete.
C28_ResolvesAfterDispatch ==
  [][(/\ last'.op = "mutation.execute"
      /\ last'.settled = "resolved"
      /\ tasks[last'.task].pc # "idle"
      /\ tasks'[last'.task].pc = "idle")
       => /\ tasks[last'.task].pc = "update"
          /\ \A n \in DOMAIN tasks[last'.task].stage :
               /\ tasks[last'.task].stage[n] = "done"
               /\ tasks[last'.task].pending[n] = {}
               /\ tasks[last'.task].later[n] = {}
               /\ tasks[last'.task].held[n] = {}]_vars

\* an execute has resolved after a dispatch that named entries to
\* invalidate, and an execute of the query issued now misses on each of them
C28_Witness ==
  /\ last.op = "mutation.execute"
  /\ last.settled = "resolved"
  /\ tasks[last.task].pc = "idle"
  /\ Cardinality(last.invalidated) > 1
  /\ \A key \in last.invalidated : key \notin DOMAIN cache

\* C29: once mutation.execute has resolved, no entry its invalidation
\* trigger named is served from the cache with an output the query's logic
\* read before the mutation's logic ran, also when an execute of the query
\* for that input was awaiting its logic while the mutation and its dispatch
\* ran.
C29_NoStaleEntryAfterMutation ==
  [][(/\ last.op = "mutation.execute"
      /\ last.settled = "resolved"
      /\ last'.op = "query.execute"
      /\ last'.hit
      /\ last'.key \in last.invalidated)
       => last'.result >= last.version]_vars

\* C30: when two executions of mutations whose update triggers name the same
\* cached key have both resolved, the entry holds both updates applied, in
\* some order, to the output that was cached before them.
C30_NoLostUpdate ==
  [][(/\ last.op = "mutation.execute"
      /\ last.settled = "resolved"
      /\ last'.op = "mutation.execute"
      /\ last'.settled = "resolved"
      /\ tasks[last'.task].pc = "update"
      /\ tasks'[last'.task].pc = "idle")
       => \A h1 \in last.read, h2 \in last'.read :
            (h1.key = h2.key /\ h1.value # Undefined /\ h2.value # Undefined)
              => LET first == IF h1.value > h2.value THEN h1.value ELSE h2.value
                     original == DeserializeValue(valueSerde, first)
                 IN /\ h1.key \in DOMAIN cache'
                    /\ DeserializeValue(valueSerde, cache'[h1.key])
                         = TriggerUpdate(TriggerUpdate(original))]_vars

\* C31: within one dispatch the update pass begins only once the
\* invalidation pass has completed: at the step that begins it every
\* registration is done with the invalidation pass and no invalidation is
\* outstanding; and while the invalidation pass runs no update has read the
\* cache and no registration has listed keys for the update pass.
C31_InvalidationPassBeforeUpdatePass ==
  [][\A t \in MutationTasks :
       /\ (tasks[t].pc # "update" /\ tasks'[t].pc = "update")
            => /\ tasks[t].pc = "invalidation"
               /\ \A n \in DOMAIN tasks[t].stage :
                    /\ tasks[t].stage[n] = "done"
                    /\ tasks[t].pending[n] = {}
                    /\ tasks[t].later[n] = {}
       /\ tasks'[t].pc = "invalidation"
            => /\ tasks'[t].read = {}
               /\ \A n \in DOMAIN tasks'[t].held : tasks'[t].held[n] = {}]_vars

\* a dispatch has invalidated a key in its invalidation pass and an update
\* of its update pass has read the cache
C31_Witness ==
  \E t \in MutationTasks :
    /\ tasks[t].pc = "update"
    /\ tasks[t].invalidated # {}
    /\ tasks[t].read # {}

\* C32: when the invalidation trigger and the update trigger a dispatch
\* applies to a query name the same key, the entry is absent after the
\* dispatch, the trigger's update function was not called for the key, and
\* the next execute of the query for that key is a miss that calls the raw
\* logic.
C32_InvalidationWinsOverUpdate ==
  [][/\ (last'.op = "mutation.execute" /\ last'.dispatched)
          => \A key \in last'.invalidated \cap last'.updated :
               /\ key \notin DOMAIN cache'
               /\ key \notin last'.updateCalled
     /\ (/\ last.op = "mutation.execute"
         /\ last.dispatched
         /\ last'.op = "query.execute"
         /\ last'.key \in last.invalidated \cap last.updated)
          => (~last'.hit /\ last'.invoked)]_vars

\* a dispatch has applied an invalidation trigger and an update trigger of
\* the query to one key that was cached as the dispatch began
C32_Witness ==
  /\ last.op = "mutation.execute"
  /\ last.settled = "resolved"
  /\ \E n \in DOMAIN queries :
       /\ FindByMutation(queries[n].invalidatedBy, last.mutation) # 0
       /\ FindByMutation(queries[n].updatedBy, last.mutation) # 0
       /\ \E key \in last.invalidated \cap last.updated :
            /\ key \in last.cachedQueryKeys[n]
            /\ key \notin DOMAIN cache

\* C33: whenever the update trigger a dispatch applies names a key that
\* holds a valid cached value when the update pass runs, the trigger's
\* update function is called for that key, whatever the value is.
C33_UpdateInvokedForEveryValidValue ==
  [][(last'.op = "mutation.execute" /\ last'.dispatched)
       => \A key \in (last'.updated \cap DOMAIN cache) \ last'.invalidated :
            key \in last'.updateCalled]_vars

C35_UnmatchedQueriesUntouched ==
  [][(last'.op = "mutation.execute" /\ last'.dispatched)
       => \A n \in DOMAIN queries :
            (/\ FindByMutation(queries[n].invalidatedBy, last'.mutation) = 0
             /\ FindByMutation(queries[n].updatedBy, last'.mutation) = 0)
              => /\ last'.cachedQueryKeys[n] = {}
                 /\ \A input \in Inputs :
                      CacheGet(cache', QueryKey(queries[n], input))
                        = CacheGet(cache, QueryKey(queries[n], input))]_vars

\* C36: mutation names are unique within a context: once a mutation has
\* been registered under a name, registering another mutation under that
\* name fails.
C36_MutationNamesUnique ==
  [][(/\ last.op = "withRemoteStateMutationRegistration"
      /\ last.err = ""
      /\ last'.op = "withRemoteStateMutationRegistration"
      /\ last'.name = last.name)
       => last'.err # ""]_vars

\* C37: the cachedQueryKeys a dispatch passes to a trigger of a query hold
\* every key of the query that is valid in the cache when the keys are
\* listed (as the dispatch begins for an invalidation trigger, after the
\* invalidation pass for an update trigger), and hold no key that is not
\* valid: none that the previous dispatch or the invalidation pass of this
\* one has invalidated.
C37_CachedQueryKeysAreTheValidKeys ==
  [][(last'.op = "mutation.execute" /\ last'.dispatched)
       => \A n \in DOMAIN queries :
            LET ofQuery == {QueryKey(queries[n], input) : input \in Inputs}
                inv == FindByMutation(queries[n].invalidatedBy, last'.mutation) # 0
                upd == /\ FindByMutation(queries[n].updatedBy, last'.mutation) # 0
                       /\ \A o \in DOMAIN queries :
                            ~PassThrows(queries[o].invalidatedBy, last'.mutation,
                                        last'.input)
            IN /\ inv => (ofQuery \cap CacheKeys(cache)) \subseteq last'.cachedQueryKeys[n]
               /\ (upd /\ ~inv)
                    => /\ ((ofQuery \cap CacheKeys(cache)) \ last'.invalidated)
                            \subseteq last'.cachedQueryKeys[n]
                       /\ last'.cachedQueryKeys[n] \cap last'.invalidated = {}
               /\ last'.cachedQueryKeys[n] \subseteq CacheKeys(cache)
               /\ (last.op = "mutation.execute" /\ last.dispatched)
                    => last'.cachedQueryKeys[n] \cap last.invalidated = {}]_vars

\* a trigger was passed some keys of its query, the valid ones, while an
\* input of the query had no valid entry and its key was not passed
C37_Witness ==
  /\ last.op = "mutation.execute"
  /\ last.dispatched
  /\ \E n \in DOMAIN queries :
       /\ last.cachedQueryKeys[n] # {}
       /\ \E input \in Inputs : QueryKey(queries[n], input) \notin last.cachedQueryKeys[n]

\* whether the sequence `before` is the beginning of the sequence `after`
IsPrefix(before, after) ==
  /\ Len(before) <= Len(after)
  /\ \A i \in 1..Len(before) : after[i] = before[i]

\* C38: the registry only grows, and a dispatch only reads it: a registered
\* query stays registered under its name with its key serialization and
\* with the triggers it had, in their order; and the execution of a
\* mutation, a query or a manual update leaves every registration and every
\* trigger list as it was.
C38_RegistryAppendOnly ==
  [][/\ \A n \in DOMAIN queries :
          /\ n \in DOMAIN queries'
          /\ queries'[n].name = queries[n].name
          /\ queries'[n].keySer = queries[n].keySer
          /\ IsPrefix(queries[n].invalidatedBy, queries'[n].invalidatedBy)
          /\ IsPrefix(queries[n].updatedBy, queries'[n].updatedBy)
     /\ last'.op \in {"mutation.execute", "query.execute", "query.update"}
          => queries' = queries]_vars

\* a dispatch has applied a trigger of a registered query, and the trigger
\* is still in the registry
C38_Witness ==
  /\ last.op = "mutation.execute"
  /\ last.dispatched
  /\ last.invalidated \cup last.updated # {}
  /\ HasTriggerOn(queries, last.mutation)

\* C39: a query is registered with empty invalidatedBy and updatedBy lists;
\* an addTrigger call with exactly one arm puts that definition at the end
\* of the corresponding list of its query and leaves the other list, the
\* definitions that were there and their order, and every other query's
\* registration as they were.
C39_AddTriggerAppends ==
  [][/\ (last'.op = "withRemoteStateQueryCaching" /\ last'.err = "")
          => /\ queries'[last'.name].invalidatedBy = <<>>
             /\ queries'[last'.name].updatedBy = <<>>
     /\ (last'.op = "addTrigger" /\ last'.arms = 1)
          => LET was == queries[last'.name]
                 is == queries'[last'.name]
             IN /\ \/ /\ Len(is.invalidatedBy) = Len(was.invalidatedBy) + 1
                      /\ IsPrefix(was.invalidatedBy, is.invalidatedBy)
                      /\ is.updatedBy = was.updatedBy
                   \/ /\ Len(is.updatedBy) = Len(was.updatedBy) + 1
                      /\ IsPrefix(was.updatedBy, is.updatedBy)
                      /\ is.invalidatedBy = was.invalidatedBy
                /\ \A n \in DOMAIN queries \ {last'.name} : queries'[n] = queries[n]
                /\ DOMAIN queries' = DOMAIN queries]_vars

\* a definition was added to a list that held a different one, which is
\* still the first, while another query is registered
C39_Witness ==
  /\ last.op = "addTrigger"
  /\ last.arms = 1
  /\ Cardinality(DOMAIN queries) = 2
  /\ \/ /\ Len(queries[last.name].invalidatedBy) = 2
        /\ queries[last.name].invalidatedBy[1] # queries[last.name].invalidatedBy[2]
     \/ /\ Len(queries[last.name].updatedBy) = 2
        /\ queries[last.name].updatedBy[1] # queries[last.name].updatedBy[2]

\* C40: mutation.execute terminates: when the raw logic and every cache
\* operation it awaits eventually settle, an execution that has been started
\* eventually settles (resolves or rejects).
C40_MutationExecuteSettles ==
  \A t \in MutationTasks : (tasks[t].pc # "idle") ~> (tasks[t].pc = "idle")

\* an execution whose dispatch invalidated an entry and read the cache for
\* an update has resolved
C40_Witness ==
  /\ last.op = "mutation.execute"
  /\ last.settled = "resolved"
  /\ last.invalidated # {}
  /\ last.read # {}
  /\ tasks[last.task].pc = "idle"

====
